---- MODULE Spec2Model ----
(***************************************************************************)
(* Scene stack (src/src/scenes.rs) and tick-based maze scene               *)
(* (src/src/maze_scene.rs, src/src/game_data.rs, src/src/lib.rs).          *)
(*                                                                         *)
(* Spec      drives a SceneManager whose scenes are arbitrary implementors *)
(*           of the Scene trait: each handle_input / update call may       *)
(*           return any SceneSwitch.                                       *)
(* SpecMaze  drives one MazeScene directly through its Scene methods.      *)
(***************************************************************************)
EXTENDS Integers, Sequences, FiniteSets, TLC

\* ---------------------------------------------------------------- bounds
\* Scene objects that can be created over a run (Box<dyn Scene> values).
MaxScenes == 4
\* Deepest stack explored.
MaxDepth == 3
\* Largest score explored (GameData.points is a u32 the run never fills).
MaxPoints == 2
\* Latest reading of the monotonic clock explored.
MaxClock == 1

VARIABLES
    scenes,     \* SceneManager.scenes: the stack, last is top; scene object ids
    quit,       \* SceneManager.quit
    nextId,     \* id of the next scene object to be boxed
    enterCnt,   \* observer: on_enter calls received, per scene object
    exitCnt,    \* observer: on_exit calls received, per scene object
    hist,       \* observer: the last two apply_switch calls
    last,       \* observer: the last public SceneManager call and the calls it made
    popRun,     \* observer: Pop signals applied since the last Push/Replace
    maze,       \* the MazeScene object
    data,       \* the GameData passed to every lifecycle call
    clock,      \* the monotonic clock read by Instant::now()
    entered,    \* whether on_enter has been called on the MazeScene
    mlast,      \* observer: the last MazeScene call, what it returned and did
    win,        \* observer: update calls since the accumulator was zero at construction
    fcall       \* observer: the last call of a function outside the scene trait

mgrVars == <<scenes, quit, nextId, enterCnt, exitCnt, hist, last, popRun>>

mazeVars == <<maze, data, clock, entered, mlast, win>>

vars == <<scenes, quit, nextId, enterCnt, exitCnt, hist, last, popRun,
          maze, data, clock, entered, mlast, win, fcall>>

\* ------------------------------------------------------------ SceneSwitch
SwitchTags == {"None", "Push", "Replace", "Pop", "Quit"}

\* scene = 0 when the variant carries no scene
SceneSwitch(tag, scene) == [tag |-> tag, scene |-> scene]

Carries(tag) == tag \in {"Push", "Replace"}

Top(stack) == stack[Len(stack)]

Front(stack) == SubSeq(stack, 1, Len(stack) - 1)

Ev(call, scene) == <<call, scene>>

\* ----------------------------------------------------------- SceneManager
\* A manager value is [scenes, quit].  Each arm of apply_switch returns the new
\* manager value and, in order, the lifecycle calls it made.
Result(stack, q, calls) == [scenes |-> stack, quit |-> q, calls |-> calls]

\* SceneSwitch::Push(mut scene) => { scene.on_enter(rl, data); self.scenes.push(scene); }
apply_push(mgr, scene) ==
    Result(Append(mgr.scenes, scene), mgr.quit, <<Ev("on_enter", scene)>>)

apply_replace_keeps_old(mgr, scene) == apply_push(mgr, scene)

apply_replace_without_exit(mgr, scene) ==
    IF mgr.scenes # <<>>
    THEN Result(Append(Front(mgr.scenes), scene), mgr.quit, <<Ev("on_enter", scene)>>)
    ELSE Result(<<scene>>, mgr.quit, <<Ev("on_enter", scene)>>)

apply_replace_enter_first(mgr, scene) ==
    IF mgr.scenes # <<>>
    THEN Result(Append(Front(mgr.scenes), scene), mgr.quit,
                <<Ev("on_enter", scene), Ev("on_exit", Top(mgr.scenes))>>)
    ELSE Result(<<scene>>, mgr.quit, <<Ev("on_enter", scene)>>)

\* SceneSwitch::Replace(mut scene) => {
\*     if let Some(mut old_scene) = self.scenes.pop() { old_scene.on_exit(rl, data); }
\*     scene.on_enter(rl, data); self.scenes.push(scene); }
apply_replace(mgr, scene) ==
    IF mgr.scenes # <<>>
    THEN Result(Append(Front(mgr.scenes), scene), mgr.quit,
                <<Ev("on_exit", Top(mgr.scenes)), Ev("on_enter", scene)>>)
    ELSE Result(<<scene>>, mgr.quit, <<Ev("on_enter", scene)>>)

apply_pop_reenters(mgr) ==
    IF Len(mgr.scenes) > 1
    THEN Result(Front(mgr.scenes), mgr.quit,
                <<Ev("on_exit", Top(mgr.scenes)),
                  Ev("on_enter", Top(Front(mgr.scenes)))>>)
    ELSE IF mgr.scenes # <<>>
    THEN Result(<<>>, mgr.quit, <<Ev("on_exit", Top(mgr.scenes))>>)
    ELSE Result(mgr.scenes, mgr.quit, <<>>)

apply_pop_keeps_last(mgr) ==
    IF Len(mgr.scenes) > 1
    THEN Result(Front(mgr.scenes), mgr.quit, <<Ev("on_exit", Top(mgr.scenes))>>)
    ELSE Result(mgr.scenes, mgr.quit, <<>>)

\* SceneSwitch::Pop => { if let Some(mut old_scene) = self.scenes.pop() {
\*     old_scene.on_exit(rl, data); } }
apply_pop(mgr) ==
    IF mgr.scenes # <<>>
    THEN Result(Front(mgr.scenes), mgr.quit, <<Ev("on_exit", Top(mgr.scenes))>>)
    ELSE Result(mgr.scenes, mgr.quit, <<>>)

apply_quit_clears_stack(mgr) ==
    Result(<<>>, TRUE, [i \in 1..Len(mgr.scenes) |->
                           Ev("on_exit", mgr.scenes[Len(mgr.scenes) + 1 - i])])

\* SceneSwitch::Quit => { self.quit = true; }
apply_quit(mgr) == Result(mgr.scenes, TRUE, <<>>)

\* SceneManager::apply_switch
apply_switch(mgr, switch) ==
    CASE switch.tag = "None"    -> Result(mgr.scenes, mgr.quit, <<>>)
      [] switch.tag = "Push"    -> apply_push(mgr, switch.scene)
      [] switch.tag = "Replace" -> apply_replace(mgr, switch.scene)
      [] switch.tag = "Pop"     -> apply_pop(mgr)
      [] switch.tag = "Quit"    -> apply_quit(mgr)

should_quit_needs_both(mgr) == mgr.quit /\ mgr.scenes = <<>>

\* SceneManager::should_quit
should_quit(mgr) == mgr.quit \/ mgr.scenes = <<>>

\* One apply_switch call as the observer records it.
Applied(mgr, switch, r) ==
    [switch |-> switch, before |-> mgr.scenes, after |-> r.scenes,
     quitBefore |-> mgr.quit, quitAfter |-> r.quit, calls |-> r.calls]

SceneManager_update_skips_pushed(mgr, sw1, sw2) ==
    LET r1 == apply_switch(mgr, sw1)
        m1 == [scenes |-> r1.scenes, quit |-> r1.quit]
        did2 == mgr.scenes # <<>> /\ m1.scenes # <<>> /\ ~Carries(sw1.tag)
        r2 == IF did2 THEN apply_switch(m1, sw2) ELSE Result(m1.scenes, m1.quit, <<>>)
    IN  IF mgr.scenes = <<>>
        THEN [scenes |-> mgr.scenes, quit |-> mgr.quit, trace |-> <<>>,
              applied |-> <<>>, did1 |-> FALSE, did2 |-> FALSE]
        ELSE [scenes |-> r2.scenes, quit |-> r2.quit,
              trace |-> <<Ev("handle_input", Top(mgr.scenes))>> \o r1.calls
                        \o (IF did2 THEN <<Ev("update", Top(m1.scenes))>> \o r2.calls
                            ELSE <<>>),
              applied |-> <<Applied(mgr, sw1, r1)>>
                          \o (IF did2 THEN <<Applied(m1, sw2, r2)>> ELSE <<>>),
              did1 |-> TRUE, did2 |-> did2]

\* update called on every scene of the stack, bottom first
UpdateEach(stack) == [i \in DOMAIN stack |-> Ev("update", stack[i])]

SceneManager_update_updates_all(mgr, sw1, sw2) ==
    LET did1 == mgr.scenes # <<>>
        r1 == IF did1 THEN apply_switch(mgr, sw1)
              ELSE Result(mgr.scenes, mgr.quit, <<>>)
        m1 == [scenes |-> r1.scenes, quit |-> r1.quit]
        did2 == m1.scenes # <<>>
        r2 == IF did2 THEN apply_switch(m1, sw2)
              ELSE Result(m1.scenes, m1.quit, <<>>)
    IN  [scenes |-> r2.scenes, quit |-> r2.quit,
         trace |-> (IF did1 THEN <<Ev("handle_input", Top(mgr.scenes))>> \o r1.calls
                    ELSE <<>>)
                   \o (IF did2 THEN UpdateEach(m1.scenes) \o r2.calls ELSE <<>>),
         applied |-> (IF did1 THEN <<Applied(mgr, sw1, r1)>> ELSE <<>>)
                     \o (IF did2 THEN <<Applied(m1, sw2, r2)>> ELSE <<>>),
         did1 |-> did1, did2 |-> did2]

\* SceneManager::update: sw1 is what the top scene's handle_input returns,
\* sw2 what the update of the scene then on top returns.
SceneManager_update(mgr, sw1, sw2) ==
    LET did1 == mgr.scenes # <<>>
        \* if let Some(scene) = self.scenes.last_mut() {
        \*     let switch = scene.handle_input(rl, data); self.apply_switch(switch, ..) }
        r1 == IF did1 THEN apply_switch(mgr, sw1)
              ELSE Result(mgr.scenes, mgr.quit, <<>>)
        m1 == [scenes |-> r1.scenes, quit |-> r1.quit]
        \* if let Some(scene) = self.scenes.last_mut() {
        \*     let switch = scene.update(dt, data); self.apply_switch(switch, ..) }
        did2 == m1.scenes # <<>>
        r2 == IF did2 THEN apply_switch(m1, sw2)
              ELSE Result(m1.scenes, m1.quit, <<>>)
    IN  [scenes |-> r2.scenes, quit |-> r2.quit,
         trace |-> (IF did1 THEN <<Ev("handle_input", Top(mgr.scenes))>> \o r1.calls
                    ELSE <<>>)
                   \o (IF did2 THEN <<Ev("update", Top(m1.scenes))>> \o r2.calls
                       ELSE <<>>),
         applied |-> (IF did1 THEN <<Applied(mgr, sw1, r1)>> ELSE <<>>)
                     \o (IF did2 THEN <<Applied(m1, sw2, r2)>> ELSE <<>>),
         did1 |-> did1, did2 |-> did2]

\* ------------------------------------------------------------------- f32
\* An f32 time value is held as a whole number of 2^-30 s, which is exact for
\* every f32 in [2^-7, 2^1): such a value n is an f32 iff n is a multiple of
\* F32Ulp(n), the spacing of the f32 grid at n (24 significant bits).
RECURSIVE F32UlpFrom(_, _)
F32UlpFrom(n, u) == IF n \div u < 16777216 THEN u ELSE F32UlpFrom(n, 2 * u)

F32Ulp(n) == F32UlpFrom(n, 1)

\* Round n + f/1000 (0 <= f < 1000) to the nearest f32, ties to even.
F32Round(n, f) ==
    LET u == F32Ulp(n)
        q == n \div u
        r == (n % u) * 1000 + f
        half == u * 500
    IN  IF r < half THEN q * u
        ELSE IF r > half THEN (q + 1) * u
        ELSE IF q % 2 = 0 THEN q * u ELSE (q + 1) * u

\* The f32 nearest to ms/1000 s, as the literal 0.15 and a frame time of ms
\* milliseconds are held: ms * 2^30 / 1000 = ms * 1073741 + ms * 824 / 1000.
F32OfMillis(ms) ==
    F32Round(ms * 1073741 + (ms * 824) \div 1000, (ms * 824) % 1000)

f32_add_truncating(a, b) == LET u == F32Ulp(a + b) IN ((a + b) \div u) * u

\* f32 + f32: the exact sum rounded to nearest, ties to even.
f32_add(a, b) == F32Round(a + b, 0)

\* ------------------------------------------------------------------ Option
None == <<>>

Some(v) == <<v>>

Unwrap(o) == o[1]

Min_keeps_first(a, b) == a

Min(a, b) == IF a < b THEN a ELSE b

\* usize::saturating_sub
saturating_sub(a, b) == IF a >= b THEN a - b ELSE 0

\* usize::saturating_add (the cells of the maps explored are far below usize::MAX)
saturating_add(a, b) == a + b

\* ------------------------------------------------------------------ lib.rs
is_floor_tile_up_to_wall(tile_id) ==
    (4 <= tile_id /\ tile_id <= 88) \/ (191 <= tile_id /\ tile_id <= 218)

is_floor_tile(tile_id) == (4 <= tile_id /\ tile_id <= 81) \/ (191 <= tile_id /\ tile_id <= 218)

is_wall_tile(tile_id) == 88 <= tile_id /\ tile_id <= 190

\* ---------------------------------------------------------------- GameData
\* GameData::new
GameData_new(width, height) ==
    [points |-> 0, screen_width |-> width, screen_height |-> height,
     level_start_time |-> None, level_completion_time |-> None]

score_twice(d) == [d EXCEPT !.points = d.points + 2]

\* GameData::score
score(d) == [d EXCEPT !.points = d.points + 1]

start_level_timer_keeps_completion(d, now) ==
    [d EXCEPT !.level_start_time = Some(now)]

\* GameData::start_level_timer; now is the reading of Instant::now(), in
\* milliseconds since the program started
start_level_timer(d, now) ==
    [d EXCEPT !.level_start_time = Some(now), !.level_completion_time = None]

\* GameData::complete_level
complete_level(d, now) == [d EXCEPT !.level_completion_time = Some(now)]

\* GameData::get_elapsed_time: (completion - start).as_secs_f32() when both
\* are set. A Duration of ms whole milliseconds below one second converts to
\* the f32 nearest to ms/1000 (ms * 10^6 ns and 10^9 are both f32, and the
\* division rounds once).
get_elapsed_time(d) ==
    IF d.level_start_time # None /\ d.level_completion_time # None
    THEN Some(F32OfMillis(Unwrap(d.level_completion_time)
                          - Unwrap(d.level_start_time)))
    ELSE None

\* ----------------------------------------------------------------- MapData
Entity(kind, x, y) == [kind |-> kind, x |-> x, y |-> y]

\* The maps load_map can return: tiles is grid_h rows of grid_w ids; entity
\* positions are whatever the file says (load_map validates nothing).
\* Ids used: 4, 191 floor; 88, 190 wall; 85 unclassified; -1 empty.
MapA ==
    [grid_w |-> 3, grid_h |-> 2, tile_size_px |-> 32,
     tiles |-> << <<4, 85, 190>>,
                  <<191, -1, 4>> >>,
     entities |-> <<Entity("player", 0, 0), Entity("tank", 2, 1),
                    Entity("goal", 1, 0)>>]

\* No player entity, and the first cell in row-major order is a wall.
MapB ==
    [grid_w |-> 2, grid_h |-> 2, tile_size_px |-> 16,
     tiles |-> << <<88, 4>>,
                  <<4, 191>> >>,
     entities |-> <<Entity("shooter", 0, 1), Entity("goal", 1, 1)>>]

\* The player entity lies outside the grid; a second player entity and a goal
\* share cell (0, 0).
MapC ==
    [grid_w |-> 2, grid_h |-> 2, tile_size_px |-> 33,
     tiles |-> << <<4, 4>>,
                  <<88, 85>> >>,
     entities |-> <<Entity("player", 3, 0), Entity("goal", 0, 0),
                    Entity("player", 0, 0)>>]

Maps == {MapA, MapB, MapC}

\* self.map.tiles[y][x], 0-based
TileAt(map, x, y) == map.tiles[y + 1][x + 1]

\* --------------------------------------------------------------- MazeScene
TickRateMs == 150

\* MazeScene::from_map
from_map(map) ==
    [map |-> map, tile_size |-> 32, player_x |-> 0, player_y |-> 0,
     camera |-> [target |-> <<0, 0>>, offset |-> <<0, 0>>],
     fov_radius |-> 7, tick_timer |-> 0, tick_rate |-> F32OfMillis(TickRateMs),
     queued_move |-> None, last_gamepad_direction |-> None]

is_valid_move_ignores_walls(m, x, y) ==
    IF x >= m.map.grid_w \/ y >= m.map.grid_h THEN FALSE
    ELSE TileAt(m.map, x, y) >= 0

\* MazeScene::is_valid_move
is_valid_move(m, x, y) ==
    IF x >= m.map.grid_w \/ y >= m.map.grid_h THEN FALSE
    ELSE LET tid == TileAt(m.map, x, y) IN tid >= 0 /\ ~is_wall_tile(tid)

\* MazeScene::update_camera (data.screen_width / 2 on non-negative sizes)
update_camera(m, d) ==
    [m EXCEPT !.camera =
        [target |-> <<m.player_x * m.tile_size + m.tile_size \div 2,
                      m.player_y * m.tile_size + m.tile_size \div 2>>,
         offset |-> <<d.screen_width \div 2, d.screen_height \div 2>>]]

update_player_unchecked(m) ==
    IF m.queued_move # None
    THEN [m EXCEPT !.queued_move = None,
                   !.player_x = Unwrap(m.queued_move)[1],
                   !.player_y = Unwrap(m.queued_move)[2]]
    ELSE m

update_player_keeps_rejected(m) ==
    IF m.queued_move # None
    THEN LET new_x == Unwrap(m.queued_move)[1]
             new_y == Unwrap(m.queued_move)[2]
         IN  IF is_valid_move(m, new_x, new_y)
             THEN [m EXCEPT !.queued_move = None, !.player_x = new_x, !.player_y = new_y]
             ELSE m
    ELSE m

\* MazeScene::update_player: queued_move.take(), then the validity check
update_player(m) ==
    IF m.queued_move # None
    THEN LET new_x == Unwrap(m.queued_move)[1]
             new_y == Unwrap(m.queued_move)[2]
         IN  IF is_valid_move(m, new_x, new_y)
             THEN [m EXCEPT !.queued_move = None, !.player_x = new_x, !.player_y = new_y]
             ELSE [m EXCEPT !.queued_move = None]
    ELSE m

\* MazeScene::update_enemies (placeholder)
update_enemies(m) == m

FirstPlayer_takes_last(es) ==
    LET ps == {i \in DOMAIN es : es[i].kind = "player"}
        i == CHOOSE k \in ps : \A j \in ps : j <= k
    IN  IF ps = {} THEN None ELSE Some(<<es[i].x, es[i].y>>)

RECURSIVE FirstPlayer(_)
\* for e in &self.map.entities { if e.kind == "player" { ...; break; } }
FirstPlayer(es) ==
    IF es = <<>> THEN None
    ELSE IF Head(es).kind = "player" THEN Some(<<Head(es).x, Head(es).y>>)
    ELSE FirstPlayer(Tail(es))

RECURSIVE FirstValid(_, _)
\* 'outer: for y in 0..grid_h { for x in 0..grid_w { if is_valid_move(x, y) ..
\* k counts the cells in row-major order
FirstValid(m, k) ==
    IF k >= m.map.grid_w * m.map.grid_h THEN None
    ELSE LET x == k % m.map.grid_w
             y == k \div m.map.grid_w
         IN  IF is_valid_move(m, x, y) THEN Some(<<x, y>>) ELSE FirstValid(m, k + 1)

RECURSIVE RetainNotPlayer(_)
\* self.map.entities.retain(|e| e.kind != "player")
RetainNotPlayer(es) ==
    IF es = <<>> THEN <<>>
    ELSE IF Head(es).kind # "player" THEN <<Head(es)>> \o RetainNotPlayer(Tail(es))
    ELSE RetainNotPlayer(Tail(es))

\* MazeScene::on_enter; now is the reading of Instant::now() in start_level_timer
MazeScene_on_enter(m, d, now) ==
    LET m1 == [m EXCEPT !.tile_size = m.map.tile_size_px]
        p == FirstPlayer(m1.map.entities)
        f == FirstValid(m1, 0)
        m2 == IF p # None
              THEN [m1 EXCEPT !.player_x = Unwrap(p)[1], !.player_y = Unwrap(p)[2]]
              ELSE IF f # None
              THEN [m1 EXCEPT !.player_x = Unwrap(f)[1], !.player_y = Unwrap(f)[2]]
              ELSE m1
        m3 == [m2 EXCEPT !.map.entities = RetainNotPlayer(m2.map.entities)]
    IN  [scene |-> update_camera(m3, d), data |-> start_level_timer(d, now)]

Abs(v) == IF v < 0 THEN -v ELSE v

Sign(v) == IF v > 0 THEN 1 ELSE -1

\* the deadzone 0.5, in tenths like the axis values
Deadzone == 5

\* The body of `if self.queued_move.is_none() { ... }` in handle_input.
\* inp: right/left/down/up are the key pairs held, gamepad whether gamepad 0 is
\* available, x_axis/y_axis the left stick in tenths.
read_input(m, inp) ==
    LET w1 == saturating_sub(m.map.grid_w, 1)
        h1 == saturating_sub(m.map.grid_h, 1)
        \* keyboard
        kx1 == IF inp.right THEN Min(saturating_add(m.player_x, 1), w1)
               ELSE m.player_x
        kx2 == IF inp.left THEN saturating_sub(kx1, 1) ELSE kx1
        ky1 == IF inp.down THEN Min(saturating_add(m.player_y, 1), h1)
               ELSE m.player_y
        ky2 == IF inp.up THEN saturating_sub(ky1, 1) ELSE ky1
        keyed == inp.right \/ inp.left \/ inp.down \/ inp.up
        \* gamepad
        abs_x == Abs(inp.x_axis)
        abs_y == Abs(inp.y_axis)
        pushed == inp.gamepad /\ (abs_x > Deadzone \/ abs_y > Deadzone)
        gamepad_x_dir ==
            IF abs_x > abs_y THEN Sign(inp.x_axis)
            ELSE IF abs_y > abs_x THEN 0
            ELSE IF abs_x > Deadzone THEN Sign(inp.x_axis) ELSE 0
        gamepad_y_dir ==
            IF abs_x > abs_y THEN 0
            ELSE IF abs_y > abs_x THEN Sign(inp.y_axis)
            ELSE IF abs_y > Deadzone THEN Sign(inp.y_axis) ELSE 0
        new_x == IF pushed /\ gamepad_x_dir # 0
                 THEN IF gamepad_x_dir > 0
                      THEN Min(saturating_add(kx2, 1), w1)
                      ELSE saturating_sub(kx2, 1)
                 ELSE kx2
        new_y == IF pushed /\ gamepad_y_dir # 0
                 THEN IF gamepad_y_dir > 0
                      THEN Min(saturating_add(ky2, 1), h1)
                      ELSE saturating_sub(ky2, 1)
                 ELSE ky2
        movement_queued ==
            keyed \/ (pushed /\ (gamepad_x_dir # 0 \/ gamepad_y_dir # 0))
    IN  [m EXCEPT
           !.last_gamepad_direction =
               IF inp.gamepad /\ ~pushed THEN None ELSE @,
           !.queued_move =
               IF movement_queued /\ (new_x # m.player_x \/ new_y # m.player_y)
               THEN Some(<<new_x, new_y>>) ELSE None]

handle_input_always_reads(m, inp) == read_input(m, inp)

\* MazeScene::handle_input; returns the scene, the switch is always None.
MazeScene_handle_input(m, inp) ==
    IF m.queued_move = None THEN read_input(m, inp) ELSE m

\* a remaining entity of kind "goal" on the player's cell
GoalAtPlayer(m) ==
    \E i \in DOMAIN m.map.entities :
        /\ m.map.entities[i].kind = "goal"
        /\ m.map.entities[i].x = m.player_x
        /\ m.map.entities[i].y = m.player_y

MazeScene_update_keeps_remainder(m, d, dt, now) ==
    LET m1 == update_camera(m, d)
        t == f32_add(m1.tick_timer, dt)
        ticked == t >= m1.tick_rate
        m2 == IF ticked
              THEN update_enemies(update_player(
                       [m1 EXCEPT !.tick_timer = t - m1.tick_rate]))
              ELSE [m1 EXCEPT !.tick_timer = t]
    IN  IF GoalAtPlayer(m2)
        THEN [scene |-> m2, data |-> complete_level(score(d), now),
              ret |-> "Replace(WinScene)", ticked |-> ticked]
        ELSE [scene |-> m2, data |-> d, ret |-> "None", ticked |-> ticked]

MazeScene_update_goal_on_tick_only(m, d, dt, now) ==
    LET m1 == update_camera(m, d)
        t == f32_add(m1.tick_timer, dt)
        ticked == t >= m1.tick_rate
        m2 == IF ticked
              THEN update_enemies(update_player([m1 EXCEPT !.tick_timer = 0]))
              ELSE [m1 EXCEPT !.tick_timer = t]
    IN  IF ticked /\ GoalAtPlayer(m2)
        THEN [scene |-> m2, data |-> complete_level(score(d), now),
              ret |-> "Replace(WinScene)", ticked |-> ticked]
        ELSE [scene |-> m2, data |-> d, ret |-> "None", ticked |-> ticked]

\* MazeScene::update; now is the reading of Instant::now() in complete_level
MazeScene_update(m, d, dt, now) ==
    LET m1 == update_camera(m, d)
        \* self.tick_timer += dt
        t == f32_add(m1.tick_timer, dt)
        ticked == t >= m1.tick_rate
        m2 == IF ticked
              THEN update_enemies(update_player([m1 EXCEPT !.tick_timer = 0]))
              ELSE [m1 EXCEPT !.tick_timer = t]
    IN  IF GoalAtPlayer(m2)
        THEN [scene |-> m2, data |-> complete_level(score(d), now),
              ret |-> "Replace(WinScene)", ticked |-> ticked]
        ELSE [scene |-> m2, data |-> d, ret |-> "None", ticked |-> ticked]

\* ------------------------------------------------------------------- i32
\* The arithmetic of in_fov is i32. A product or sum that leaves the i32 range
\* panics in a build with overflow checks (the dev profile) and wraps modulo
\* 2^32 without them (the release profile). The integers of the checker are
\* 32 bits wide themselves, so a wrapped value is put together from its
\* 16-bit halves.
I32Max == 2147483647

I32Min == -I32Max - 1

\* The i32 whose bit pattern is hi * 2^16 + lo.
I32FromHalves(hi, lo) ==
    IF hi >= 32768 THEN (hi - 65536) * 65536 + lo ELSE hi * 65536 + lo

\* `v as i32` for a usize v: the low 32 bits, as a signed number.
usize_as_i32(v) == I32FromHalves((v \div 65536) % 65536, v % 65536)

\* d * d for an i32 d above i32::MIN: the wrapped product, and whether the
\* exact product leaves the i32 range. With a = |d| = a1 * 2^16 + a0,
\* a * a = 2 * a1 * a0 * 2^16 + a0 * a0 modulo 2^32.
i32_square(d) ==
    LET a == IF d < 0 THEN -d ELSE d
        a1 == a \div 65536
        a0 == a % 65536
        p == (a0 \div 256) * a0
        q == (a0 % 256) * a0
        low == (p % 256) * 256 + q
        carry == (p \div 256) + (low \div 65536)
        cross == ((a1 * a0) % 32768) * 2
    IN  [value |-> I32FromHalves((carry + cross) % 65536, low % 65536),
         overflow |-> a > 46340]

\* a + b for two i32
i32_add(a, b) ==
    IF a >= 0 /\ b >= 0 /\ a > I32Max - b
    THEN [value |-> (a - I32Max - 1) + (b - I32Max - 1), overflow |-> TRUE]
    ELSE IF a < 0 /\ b < 0 /\ a < I32Min - b
    THEN [value |-> (a + I32Max + 1) + (b + I32Max + 1), overflow |-> TRUE]
    ELSE [value |-> a + b, overflow |-> FALSE]

\* MazeScene::in_fov(x, y); overflow_checks tells the build profile. The two
\* casts stay below 2^31 on the cells explored, so the differences cannot
\* overflow.
in_fov(m, x, y, overflow_checks) ==
    IF x >= m.map.grid_w \/ y >= m.map.grid_h
    THEN [panic |-> FALSE, value |-> FALSE]
    ELSE LET dx == usize_as_i32(x) - usize_as_i32(m.player_x)
             dy == usize_as_i32(y) - usize_as_i32(m.player_y)
             xx == i32_square(dx)
             yy == i32_square(dy)
             dist_squared == i32_add(xx.value, yy.value)
             radius_squared == m.fov_radius * m.fov_radius
         IN  IF overflow_checks
                /\ (xx.overflow \/ yy.overflow \/ dist_squared.overflow)
             THEN [panic |-> TRUE, value |-> FALSE]
             ELSE [panic |-> FALSE, value |-> dist_squared.value <= radius_squared]

\* MazeScene::get_visible_bounds
get_visible_bounds(m) ==
    [min_x |-> saturating_sub(m.player_x, m.fov_radius),
     max_x |-> Min(m.player_x + m.fov_radius + 1, m.map.grid_w),
     min_y |-> saturating_sub(m.player_y, m.fov_radius),
     max_y |-> Min(m.player_y + m.fov_radius + 1, m.map.grid_h)]

\* What MazeScene::draw puts on the screen: the cells of the floor and wall
\* layers, the entities drawn, the player circle, the camera of the 2D mode
\* and the score of the UI layer. (No square overflows on the maps drawn, so
\* both build profiles draw the same.)
Shown(m, d) ==
    LET b == get_visible_bounds(m)
        cells == {c \in (b.min_x .. b.max_x - 1) \X (b.min_y .. b.max_y - 1) :
                    in_fov(m, c[1], c[2], FALSE).value}
    IN  [floor |-> {c \in cells :
                      LET tid == TileAt(m.map, c[1], c[2])
                      IN  tid >= 0 /\ (is_floor_tile(tid) \/ ~is_wall_tile(tid))},
         walls |-> {c \in cells :
                      LET tid == TileAt(m.map, c[1], c[2])
                      IN  tid >= 0 /\ is_wall_tile(tid)},
         entities |-> {i \in DOMAIN m.map.entities :
                         /\ in_fov(m, m.map.entities[i].x, m.map.entities[i].y,
                                   FALSE).value
                         /\ m.map.entities[i].kind \in {"goal", "tank", "shooter"}},
         player |-> <<m.player_x * m.tile_size + m.tile_size \div 2,
                      m.player_y * m.tile_size + m.tile_size \div 2>>,
         camera |-> m.camera,
         score |-> d.points]

MazeScene_draw_recenters(m, d) ==
    [scene |-> update_camera(m, d), data |-> d,
     shown |-> Shown(update_camera(m, d), d)]

\* MazeScene::draw(&self, d, data): the scene and the data after the call, and
\* what was drawn.
MazeScene_draw(m, d) == [scene |-> m, data |-> d, shown |-> Shown(m, d)]

\* ----------------------------------------------------------- menu_scene.rs
\* The scene types pushed on the stack by the scenes of the repository.
TitleScene == 1

MenuScene == 2

MazeScene == 3

WinScene == 4

PauseScene == 5

\* utils::check_collision_point_rect; rect is <<x, y, width, height>>
check_collision_point_rect(point, rect) ==
    /\ point[1] >= rect[1] /\ point[1] <= rect[1] + rect[3]
    /\ point[2] >= rect[2] /\ point[2] <= rect[2] + rect[4]

\* is_mouse_button_pressed(MOUSE_BUTTON_LEFT) with the click inside rect
Clicked(inp, rect) ==
    inp.click # None /\ check_collision_point_rect(Unwrap(inp.click), rect)

WinScene_handle_input_quits(inp) ==
    IF Clicked(inp, <<200, 200, 300, 150>>)
    THEN SceneSwitch("Quit", 0) ELSE SceneSwitch("None", 0)

\* WinScene::handle_input: a click inside the green rectangle pops the scene
WinScene_handle_input(inp) ==
    IF Clicked(inp, <<200, 200, 300, 150>>)
    THEN SceneSwitch("Pop", 0) ELSE SceneSwitch("None", 0)

\* handle_input of the scene on top. w holds the MazeScene object and the
\* GameData; inp the keys, stick, mouse click and P press of the frame; map is
\* what load_map reads when MenuScene builds a MazeScene.
scene_handle_input(scene, w, inp, map) ==
    CASE scene = TitleScene ->
           [w EXCEPT !.switch = IF Clicked(inp, <<490, 645, 300, 150>>)
                                THEN SceneSwitch("Push", MenuScene)
                                ELSE SceneSwitch("None", 0)]
      [] scene = MenuScene ->
           IF Clicked(inp, <<200, 200, 150, 50>>)
           THEN [w EXCEPT !.switch = SceneSwitch("Push", MazeScene),
                          !.maze = from_map(map)]
           ELSE [w EXCEPT !.switch = SceneSwitch("None", 0)]
      [] scene = MazeScene ->
           [w EXCEPT !.switch = SceneSwitch("None", 0),
                     !.maze = MazeScene_handle_input(w.maze, inp)]
      [] scene = WinScene -> [w EXCEPT !.switch = WinScene_handle_input(inp)]
      [] scene = PauseScene ->
           [w EXCEPT !.switch = IF inp.p THEN SceneSwitch("Pop", 0)
                                ELSE SceneSwitch("None", 0)]

\* update of the scene on top
scene_update(scene, w, dt, now) ==
    IF scene = MazeScene
    THEN LET r == MazeScene_update(w.maze, w.data, dt, now)
         IN  [maze |-> r.scene, data |-> r.data,
              switch |-> IF r.ret = "None" THEN SceneSwitch("None", 0)
                         ELSE SceneSwitch("Replace", WinScene),
              ticked |-> r.ticked]
    ELSE [w EXCEPT !.switch = SceneSwitch("None", 0), !.ticked = FALSE]

\* on_enter of a scene; only MazeScene's does anything
scene_on_enter(scene, w, now) ==
    IF scene = MazeScene
    THEN LET r == MazeScene_on_enter(w.maze, w.data, now)
         IN  [w EXCEPT !.maze = r.scene, !.data = r.data]
    ELSE w

\* the on_enter calls of an apply_switch, applied to w
RECURSIVE Entered(_, _, _)
Entered(w, calls, now) ==
    IF calls = <<>> THEN w
    ELSE Entered(IF Head(calls)[1] = "on_enter"
                 THEN scene_on_enter(Head(calls)[2], w, now) ELSE w,
                 Tail(calls), now)

\* draw of a scene; the menu scenes draw fixed text and rectangles
scene_draw(scene, w) ==
    IF scene = MazeScene
    THEN LET r == MazeScene_draw(w.maze, w.data)
         IN  [maze |-> r.scene, data |-> r.data, shown |-> r.shown]
    ELSE [maze |-> w.maze, data |-> w.data, shown |-> scene]

\* SceneManager::draw
SceneManager_draw(mgr) ==
    [scenes |-> mgr.scenes, quit |-> mgr.quit,
     trace |-> IF mgr.scenes # <<>> THEN <<Ev("draw", Top(mgr.scenes))>> ELSE <<>>,
     applied |-> <<>>, did1 |-> FALSE, did2 |-> FALSE]

\* ---------------------------------------------------------------- main.rs
\* The `match result` of main: Push appends the scene, Quit clears
\* keep_playing (st.quit is its negation), every other signal is dropped.
main_match(st, switch) ==
    CASE switch.tag = "Push" -> [st EXCEPT !.scenes = Append(@, switch.scene)]
      [] switch.tag = "Quit" -> [st EXCEPT !.quit = TRUE]
      [] OTHER -> st

\* One pass through the body of main's while loop: sw1 is what handle_input
\* returns, sw2 what update returns.
main_loop_body(st, sw1, sw2) ==
    LET s1 == main_match(st, sw1)
        s2 == main_match(s1, sw2)
    IN  [scenes |-> s2.scenes, quit |-> s2.quit,
         trace |-> <<Ev("handle_input", Top(st.scenes)),
                     Ev("update", Top(s1.scenes)),
                     Ev("draw", Top(s2.scenes))>>,
         applied |-> <<>>, did1 |-> TRUE, did2 |-> TRUE]

\* -------------------------------------------------------------- observers
SceneIds == 1..MaxScenes

CountEv(trace, call, id) ==
    Cardinality({i \in DOMAIN trace : trace[i] = Ev(call, id)})

Keep2(s) == IF Len(s) > 2 THEN SubSeq(s, Len(s) - 1, Len(s)) ELSE s

PopRunStep(pr, rec) ==
    CASE Carries(rec.switch.tag) -> [depth |-> Len(rec.after), count |-> 0]
      [] rec.switch.tag = "Pop"  ->
            [depth |-> pr.depth,
             count |-> IF pr.count > MaxDepth THEN pr.count ELSE pr.count + 1]
      [] OTHER -> pr

RECURSIVE PopRunFold(_, _)
PopRunFold(pr, recs) ==
    IF recs = <<>> THEN pr
    ELSE PopRunFold(PopRunStep(pr, Head(recs)), Tail(recs))

Observe(op, mgr, sw1, sw2, r) ==
    /\ enterCnt' = [i \in SceneIds |-> enterCnt[i] + CountEv(r.trace, "on_enter", i)]
    /\ exitCnt' = [i \in SceneIds |-> exitCnt[i] + CountEv(r.trace, "on_exit", i)]
    /\ hist' = Keep2(hist \o r.applied)
    /\ popRun' = PopRunFold(popRun, r.applied)
    /\ last' = [op |-> op, before |-> mgr, sw1 |-> sw1, sw2 |-> sw2,
                did1 |-> r.did1, did2 |-> r.did2, trace |-> r.trace]

\* ---------------------------------------------------------------- actions
Mgr == [scenes |-> scenes, quit |-> quit]

\* SceneManager::new(rl, initial, data): scene object 1 is the initial scene.
MgrStart ==
    /\ scenes = <<1>>
    /\ quit = FALSE
    /\ nextId = 2
    /\ enterCnt = [i \in SceneIds |-> IF i = 1 THEN 1 ELSE 0]
    /\ exitCnt = [i \in SceneIds |-> 0]
    /\ hist = <<>>
    /\ popRun = [depth |-> 1, count |-> 0]
    /\ last = [op |-> "new", before |-> [scenes |-> <<>>, quit |-> FALSE],
               sw1 |-> SceneSwitch("None", 0), sw2 |-> SceneSwitch("None", 0),
               did1 |-> FALSE, did2 |-> FALSE, trace |-> <<Ev("on_enter", 1)>>]

NewScenes(tag1, tag2) ==
    (IF Carries(tag1) THEN 1 ELSE 0) + (IF Carries(tag2) THEN 1 ELSE 0)

\* A call of the public SceneManager::apply_switch with any switch.
ApplySwitch(tag) ==
    LET sw == SceneSwitch(tag, IF Carries(tag) THEN nextId ELSE 0)
        r == apply_switch(Mgr, sw)
    IN  /\ Carries(tag) => nextId <= MaxScenes
        /\ Len(r.scenes) <= MaxDepth
        /\ scenes' = r.scenes
        /\ quit' = r.quit
        /\ nextId' = nextId + NewScenes(tag, "None")
        /\ UNCHANGED <<mazeVars, fcall>>
        /\ Observe("apply_switch", Mgr, sw, SceneSwitch("None", 0),
                   [trace |-> r.calls, applied |-> <<Applied(Mgr, sw, r)>>,
                    did1 |-> FALSE, did2 |-> FALSE])

\* A call of SceneManager::update; the scenes are arbitrary implementors of the
\* trait, so each of the two lifecycle calls may return any switch.
Frame(tag1, tag2) ==
    LET sw1 == SceneSwitch(tag1, IF Carries(tag1) THEN nextId ELSE 0)
        sw2 == SceneSwitch(tag2, IF Carries(tag2)
                                 THEN nextId + NewScenes(tag1, "None") ELSE 0)
        r == SceneManager_update(Mgr, sw1, sw2)
    IN  /\ nextId + NewScenes(tag1, tag2) <= MaxScenes + 1
        /\ ~r.did1 => tag1 = "None"
        /\ ~r.did2 => tag2 = "None"
        /\ \A i \in DOMAIN r.applied : Len(r.applied[i].after) <= MaxDepth
        /\ scenes' = r.scenes
        /\ quit' = r.quit
        /\ nextId' = nextId + NewScenes(tag1, tag2)
        /\ UNCHANGED <<mazeVars, fcall>>
        /\ Observe("update", Mgr, sw1, sw2, r)

\* The MazeScene variables after MazeScene::from_map(map) and
\* GameData::new(640, 480) (main.rs).
MazeStart(map) ==
    /\ maze = from_map(map)
    /\ data = GameData_new(640, 480)
    /\ clock = 0
    /\ entered = FALSE
    /\ mlast = [op |-> "from_map", ret |-> "None", ticked |-> FALSE, move |-> "none",
                dt |-> 0]
    /\ win = [ms |-> 0, ticks |-> 0, fired |-> FALSE]

\* No function outside the scene trait has been called.
NoCall == [op |-> "none"]

MgrInit == MgrStart /\ MazeStart(MapA) /\ fcall = NoCall

\* A call of SceneManager::draw.
Draw ==
    /\ UNCHANGED <<scenes, quit, nextId, mazeVars, fcall>>
    /\ Observe("draw", Mgr, SceneSwitch("None", 0), SceneSwitch("None", 0),
               SceneManager_draw(Mgr))

Next ==
    \/ \E tag \in SwitchTags : ApplySwitch(tag)
    \/ \E tag1, tag2 \in SwitchTags : Frame(tag1, tag2)
    \/ Draw

Spec == MgrInit /\ [][Next]_vars

\* ------------------------------------------------- actions on one MazeScene
\* Frame times in whole milliseconds, each held as the nearest f32.
DtMs == {30, 75, 120, 150, 400}

\* Left-stick positions in tenths.
AxisValues == {-10, 0, 5, 6}

KeySets == [right : BOOLEAN, left : BOOLEAN, down : BOOLEAN, up : BOOLEAN]

NoKeys == [right |-> FALSE, left |-> FALSE, down |-> FALSE, up |-> FALSE]

WithPad(keys, gamepad, x, y) ==
    [right |-> keys.right, left |-> keys.left, down |-> keys.down, up |-> keys.up,
     gamepad |-> gamepad, x_axis |-> x, y_axis |-> y]

\* Every key combination without a gamepad; every stick position with no key
\* and with the right key.
Inputs ==
    {WithPad(k, FALSE, 0, 0) : k \in KeySets}
    \cup {WithPad(k, TRUE, a[1], a[2]) :
            k \in {NoKeys, [NoKeys EXCEPT !.right = TRUE]},
            a \in AxisValues \X AxisValues}

\* MazeScene::from_map on one of the maps.
MazeInit == MgrStart /\ (\E map \in Maps : MazeStart(map)) /\ fcall = NoCall

\* on_enter, called once per scene object by SceneManager; the clock may have
\* advanced when start_level_timer reads it.
OnEnter(adv) ==
    LET r == MazeScene_on_enter(maze, data, clock + adv)
    IN  /\ ~entered
        /\ clock + adv <= MaxClock
        /\ maze' = r.scene
        /\ data' = r.data
        /\ clock' = clock + adv
        /\ entered' = TRUE
        /\ mlast' = [op |-> "on_enter", ret |-> "None", ticked |-> FALSE, move |-> "none",
                     dt |-> 0]
        /\ UNCHANGED <<win, mgrVars, fcall>>

HandleInput(inp) ==
    LET m == MazeScene_handle_input(maze, inp)
    IN  /\ maze' = m
        /\ mlast' = [op |-> "handle_input", ret |-> "None", ticked |-> FALSE,
                     move |-> IF maze.queued_move # None
                              THEN (IF read_input(maze, inp).queued_move # None
                                    THEN "ignored" ELSE "none")
                              ELSE IF m.queued_move # None THEN "queued" ELSE "none",
                     dt |-> 0]
        /\ UNCHANGED <<data, clock, entered, win, mgrVars, fcall>>

\* update with a frame time of ms milliseconds; the clock may have advanced
\* when complete_level reads it.
Update(ms, adv) ==
    LET r == MazeScene_update(maze, data, F32OfMillis(ms), clock + adv)
    IN  /\ clock + adv <= MaxClock
        /\ r.data.points <= MaxPoints
        /\ r.ret = "None" => adv = 0
        /\ maze' = r.scene
        /\ data' = r.data
        /\ clock' = clock + adv
        /\ mlast' = [op |-> "update", ret |-> r.ret, ticked |-> r.ticked,
                     move |-> IF ~r.ticked \/ maze.queued_move = None THEN "none"
                              ELSE IF <<r.scene.player_x, r.scene.player_y>>
                                      = Unwrap(maze.queued_move)
                              THEN "applied" ELSE "rejected",
                     dt |-> ms]
        /\ win' = [ms |-> Min(win.ms + ms, TickRateMs + 1),
                   ticks |-> Min(win.ticks + (IF r.ticked THEN 1 ELSE 0), 2),
                   fired |-> r.ticked]
        /\ UNCHANGED <<entered, mgrVars, fcall>>

NextMaze ==
    \/ \E adv \in {0, 1} : OnEnter(adv)
    \/ \E inp \in Inputs : HandleInput(inp)
    \/ \E ms \in DtMs, adv \in {0, 1} : Update(ms, adv)

SpecMaze == MazeInit /\ [][NextMaze]_vars

\* ------------------------------------------------ the tile classes of lib.rs
\* Tile ids are i32; -1 marks an empty cell, and the ids of the tile sheet end
\* shortly after the last floor id.
MaxTile == 220

TileIds == -2 .. MaxTile

\* is_floor_tile(tile_id) and is_wall_tile(tile_id) on one id.
Classify(tile_id) ==
    /\ fcall' = [op |-> "classify", tile_id |-> tile_id,
                 floor |-> is_floor_tile(tile_id), wall |-> is_wall_tile(tile_id)]
    /\ UNCHANGED <<mgrVars, mazeVars>>

NextTiles == \E tile_id \in TileIds : Classify(tile_id)

SpecTiles == MgrInit /\ [][NextTiles]_vars

\* --------------------------------- the scenes of the repository on the stack
\* Where the mouse can be clicked: inside the buttons of MenuScene and
\* WinScene, inside WinScene's only, inside TitleScene's, and outside all.
ClickPoints == {<<210, 210>>, <<400, 300>>, <<500, 700>>, <<10, 10>>}

GameInput(keys, click, p) ==
    [right |-> keys.right, left |-> keys.left, down |-> keys.down, up |-> keys.up,
     gamepad |-> FALSE, x_axis |-> 0, y_axis |-> 0, click |-> click, p |-> p]

\* A frame with no key, with one direction held, with a click, or with P
\* pressed.
GameInputs ==
    {GameInput(k, None, FALSE) :
        k \in {NoKeys, [NoKeys EXCEPT !.right = TRUE], [NoKeys EXCEPT !.left = TRUE],
               [NoKeys EXCEPT !.down = TRUE], [NoKeys EXCEPT !.up = TRUE]}}
    \cup {GameInput(NoKeys, Some(c), FALSE) : c \in ClickPoints}
    \cup {GameInput(NoKeys, None, TRUE)}

\* Frame times of the game loop, in milliseconds.
GameDtMs == {75, 150}

\* SceneManager::new(rl, Box::new(TitleScene), data): no MazeScene exists yet.
GameInit ==
    /\ MgrStart
    /\ maze = None
    /\ data = GameData_new(640, 480)
    /\ clock = 0
    /\ entered = FALSE
    /\ mlast = [op |-> "new", ret |-> "None", ticked |-> FALSE, move |-> "none",
                dt |-> 0]
    /\ win = [ms |-> 0, ticks |-> 0, fired |-> FALSE]
    /\ fcall = NoCall

World == [maze |-> maze, data |-> data, switch |-> SceneSwitch("None", 0),
          ticked |-> FALSE]

\* Whether a trace holds the given call on a MazeScene.
CallsMaze(trace, name) ==
    \E i \in DOMAIN trace : trace[i] = Ev(name, MazeScene)

\* One SceneManager::update(rl, dt, data) of the game loop, run while
\* should_quit() is false. The clock may have advanced when on_enter or
\* complete_level reads it.
GameFrame(inp, map, ms, adv) ==
    LET now == clock + adv
        h == scene_handle_input(Top(scenes), World, inp, map)
        mid == apply_switch(Mgr, h.switch)
        w1 == Entered(h, mid.calls, now)
        u == IF mid.scenes # <<>>
             THEN scene_update(Top(mid.scenes), w1, F32OfMillis(ms), now)
             ELSE [w1 EXCEPT !.switch = SceneSwitch("None", 0)]
        fin == apply_switch([scenes |-> mid.scenes, quit |-> mid.quit], u.switch)
        w2 == Entered(u, fin.calls, now)
        r == SceneManager_update(Mgr, h.switch, u.switch)
    IN  /\ ~should_quit(Mgr)
        /\ now <= MaxClock
        /\ Top(scenes) # MenuScene => map = MapA
        /\ Top(scenes) \notin {MenuScene, MazeScene} => adv = 0
        /\ h.switch.scene # MazeScene => map = MapA
        /\ (h.switch.scene # MazeScene /\ u.switch.tag # "Replace") => adv = 0
        /\ w2.data.points <= MaxPoints
        /\ scenes' = r.scenes
        /\ quit' = r.quit
        /\ maze' = w2.maze
        /\ data' = w2.data
        /\ clock' = now
        /\ entered' = (entered \/ CallsMaze(r.trace, "on_enter"))
        /\ mlast' = [op |-> "frame", ret |-> "None", ticked |-> u.ticked,
                     move |-> "none", dt |-> ms, p |-> inp.p]
        /\ UNCHANGED <<nextId, win, fcall>>
        /\ Observe("update", Mgr, h.switch, u.switch, r)

\* One SceneManager::draw(d, data) of the game loop.
GameDraw ==
    LET r == SceneManager_draw(Mgr)
        w == scene_draw(Top(scenes), World)
    IN  /\ ~should_quit(Mgr)
        /\ scenes' = r.scenes
        /\ quit' = r.quit
        /\ maze' = w.maze
        /\ data' = w.data
        /\ mlast' = [op |-> "draw", ret |-> "None", ticked |-> FALSE,
                     move |-> "none", dt |-> 0, shown |-> w.shown]
        /\ UNCHANGED <<nextId, clock, entered, win, fcall>>
        /\ Observe("draw", Mgr, SceneSwitch("None", 0), SceneSwitch("None", 0), r)

NextGame ==
    \/ \E inp \in GameInputs, map \in Maps, ms \in GameDtMs, adv \in {0, 1} :
          GameFrame(inp, map, ms, adv)
    \/ GameDraw

SpecGame == GameInit /\ [][NextGame]_vars

\* ------------------------------------------------------- the loop of main
\* main before the loop: scenes = vec![Box::new(MenuScene)] and keep_playing;
\* no on_enter has been called.
MainInit ==
    /\ scenes = <<1>>
    /\ quit = FALSE
    /\ nextId = 2
    /\ enterCnt = [i \in SceneIds |-> 0]
    /\ exitCnt = [i \in SceneIds |-> 0]
    /\ hist = <<>>
    /\ popRun = [depth |-> 1, count |-> 0]
    /\ last = [op |-> "main", before |-> [scenes |-> <<>>, quit |-> FALSE],
               sw1 |-> SceneSwitch("None", 0), sw2 |-> SceneSwitch("None", 0),
               did1 |-> FALSE, did2 |-> FALSE, trace |-> <<>>]
    /\ MazeStart(MapA)
    /\ fcall = NoCall

\* One frame of main's loop, entered while keep_playing holds; the scenes are
\* arbitrary implementors of the trait, as in Frame.
MainFrame(tag1, tag2) ==
    LET sw1 == SceneSwitch(tag1, IF Carries(tag1) THEN nextId ELSE 0)
        sw2 == SceneSwitch(tag2, IF Carries(tag2)
                                 THEN nextId + NewScenes(tag1, "None") ELSE 0)
        r == main_loop_body(Mgr, sw1, sw2)
    IN  /\ ~quit
        /\ nextId + NewScenes(tag1, tag2) <= MaxScenes + 1
        /\ Len(r.scenes) <= MaxDepth
        /\ scenes' = r.scenes
        /\ quit' = r.quit
        /\ nextId' = nextId + NewScenes(tag1, tag2)
        /\ UNCHANGED <<mazeVars, fcall>>
        /\ Observe("main_loop", Mgr, sw1, sw2, r)

NextMain == \E tag1, tag2 \in SwitchTags : MainFrame(tag1, tag2)

SpecMain == MainInit /\ [][NextMain]_vars

\* ------------------------------------------------- the level timer of GameData
\* The last clock reading explored, in milliseconds.
MaxMillis == 200

\* Time that can pass before a call reads the clock, in milliseconds.
ClockSteps == {0, 50, 100}

DataScore ==
    /\ data.points < MaxPoints
    /\ data' = score(data)
    /\ fcall' = [op |-> "score", out |-> None]
    /\ UNCHANGED <<clock, maze, entered, mlast, win, mgrVars>>

DataStart(adv) ==
    /\ clock + adv <= MaxMillis
    /\ clock' = clock + adv
    /\ data' = start_level_timer(data, clock + adv)
    /\ fcall' = [op |-> "start_level_timer", out |-> None]
    /\ UNCHANGED <<maze, entered, mlast, win, mgrVars>>

DataComplete(adv) ==
    /\ clock + adv <= MaxMillis
    /\ clock' = clock + adv
    /\ data' = complete_level(data, clock + adv)
    /\ fcall' = [op |-> "complete_level", out |-> None]
    /\ UNCHANGED <<maze, entered, mlast, win, mgrVars>>

DataElapsed ==
    /\ fcall' = [op |-> "get_elapsed_time", out |-> get_elapsed_time(data)]
    /\ UNCHANGED <<mgrVars, mazeVars>>

\* Any sequence of calls on the GameData that main creates.
NextData ==
    \/ DataScore
    \/ \E adv \in ClockSteps : DataStart(adv)
    \/ \E adv \in ClockSteps : DataComplete(adv)
    \/ DataElapsed

SpecData == MgrInit /\ [][NextData]_vars

\* ------------------------------------------------------ the field of view
\* Cell coordinates around the radius 7, and 46341, the first difference whose
\* square is above i32::MAX.
FovCoords == {0, 3, 5, 7, 8, 46341}

\* Grid sizes: one that ends at column and row 8, and one that holds every
\* coordinate.
FovGrids == {<<8, 8>>, <<50000, 50000>>}

\* A map file of the given size with the player entity at (px, py). The tiles
\* are left out: load_map does not compare them with grid_w and grid_h, and
\* neither on_enter (given a player entity) nor in_fov reads them.
FovMap(grid, px, py) ==
    [grid_w |-> grid[1], grid_h |-> grid[2], tile_size_px |-> 32,
     tiles |-> <<>>, entities |-> <<Entity("player", px, py)>>]

\* A MazeScene entered on one of these maps.
FovInit ==
    /\ MgrStart
    /\ fcall = NoCall
    /\ \E grid \in FovGrids, px, py \in FovCoords :
          LET r == MazeScene_on_enter(from_map(FovMap(grid, px, py)),
                                      GameData_new(640, 480), 0)
          IN  /\ maze = r.scene
              /\ data = r.data
    /\ clock = 0
    /\ entered = TRUE
    /\ mlast = [op |-> "on_enter", ret |-> "None", ticked |-> FALSE, move |-> "none",
                dt |-> 0]
    /\ win = [ms |-> 0, ticks |-> 0, fired |-> FALSE]

\* in_fov(x, y) on the scene, in a build with or without overflow checks.
InFov(x, y, overflow_checks) ==
    /\ fcall' = [op |-> "in_fov", x |-> x, y |-> y,
                 overflow_checks |-> overflow_checks,
                 out |-> in_fov(maze, x, y, overflow_checks)]
    /\ UNCHANGED <<mgrVars, mazeVars>>

NextFov == \E x, y \in FovCoords, overflow_checks \in BOOLEAN : InFov(x, y, overflow_checks)

SpecFov == FovInit /\ [][NextFov]_vars

\* ------------------------------------------------- claims on the scene stack
\* C1: Push(S) followed immediately by Pop leaves a non-empty stack exactly as
\* it was before the Push (same scenes, same order, same top); S receives
\* on_enter once and on_exit once, and no lifecycle call goes to the scene that
\* is top again.
C1_PushThenPopRestores ==
    (/\ Len(hist) = 2
     /\ hist[1].switch.tag = "Push"
     /\ hist[2].switch.tag = "Pop"
     /\ hist[1].before # <<>>)
    => LET S == hist[1].switch.scene
       IN  /\ hist[2].after = hist[1].before
           /\ scenes = hist[1].before
           /\ Top(scenes) = Top(hist[1].before)
           /\ hist[1].calls = <<Ev("on_enter", S)>>
           /\ hist[2].calls = <<Ev("on_exit", S)>>
           /\ enterCnt[S] = 1
           /\ exitCnt[S] = 1
           /\ enterCnt[Top(scenes)] = 1
           /\ exitCnt[Top(scenes)] = 0

\* Push and Pop returned by handle_input and update of the same update call,
\* on a stack of two scenes.
C1_Witness ==
    /\ Len(hist) = 2
    /\ hist[1].switch.tag = "Push"
    /\ hist[2].switch.tag = "Pop"
    /\ Len(hist[1].before) = 2
    /\ last.op = "update"
    /\ last.did1 /\ last.did2

\* C2: should_quit() is true exactly when the quit flag is set or the stack is
\* empty; once a stack of depth n has received n Pop signals it is true.
C2_ShouldQuitIffQuitOrEmpty ==
    /\ should_quit(Mgr) <=> (quit = TRUE \/ Len(scenes) = 0)
    /\ popRun.count >= popRun.depth => should_quit(Mgr)

\* A stack of depth >= 2 popped empty, the quit flag never set.
C2_Witness ==
    /\ popRun.depth >= 2
    /\ popRun.count = popRun.depth
    /\ ~quit
    /\ should_quit(Mgr)

\* What the specification says a switch does to a stack, and the lifecycle calls
\* it makes (used to state C3).
StackAfter(stack, sw) ==
    CASE sw.tag = "Push"    -> stack \o <<sw.scene>>
      [] sw.tag = "Replace" -> (IF stack = <<>> THEN stack ELSE Front(stack)) \o <<sw.scene>>
      [] sw.tag = "Pop"     -> IF stack = <<>> THEN stack ELSE Front(stack)
      [] OTHER              -> stack

CallsAfter(stack, sw) ==
    (IF sw.tag \in {"Replace", "Pop"} /\ stack # <<>>
     THEN <<Ev("on_exit", Top(stack))>> ELSE <<>>)
    \o (IF Carries(sw.tag) THEN <<Ev("on_enter", sw.scene)>> ELSE <<>>)

\* C3: one SceneManager::update call makes its calls in the order handle_input
\* on the top scene, the calls of its signal, update on whichever scene is then
\* on top (also one just pushed or replaced in), the calls of that signal;
\* update is called iff the stack is non-empty after the first signal, and the
\* resulting stack and quit flag are those of both signals applied in turn.
C3_FrameOrder ==
    last.op = "update" =>
        LET b  == last.before.scenes
            s1 == StackAfter(b, last.sw1)
            s2 == IF s1 # <<>> THEN StackAfter(s1, last.sw2) ELSE s1
        IN  IF b = <<>>
            THEN last.trace = <<>> /\ scenes = b /\ quit = last.before.quit
            ELSE /\ last.trace =
                       <<Ev("handle_input", Top(b))>> \o CallsAfter(b, last.sw1)
                       \o (IF s1 # <<>>
                           THEN <<Ev("update", Top(s1))>> \o CallsAfter(s1, last.sw2)
                           ELSE <<>>)
                 /\ last.did2 <=> (s1 # <<>>)
                 /\ scenes = s2
                 /\ quit = (\/ last.before.quit
                            \/ last.sw1.tag = "Quit"
                            \/ (s1 # <<>> /\ last.sw2.tag = "Quit"))

\* handle_input pushed a scene, which received update in the same call and
\* answered Replace.
C3_Witness ==
    /\ last.op = "update"
    /\ last.sw1.tag = "Push"
    /\ last.sw2.tag = "Replace"
    /\ Len(last.trace) = 5
    /\ last.trace[3] = Ev("update", last.sw1.scene)
    /\ Top(scenes) = last.sw2.scene

\* C4: Replace(N) on a non-empty stack removes exactly the top scene, calls
\* on_exit on it strictly before on_enter on N, leaves the scenes beneath as
\* they were and the depth unchanged, with N on top.
C4_ReplaceSwapsTop ==
    \A i \in DOMAIN hist :
        (hist[i].switch.tag = "Replace" /\ hist[i].before # <<>>) =>
            LET b == hist[i].before
                a == hist[i].after
                N == hist[i].switch.scene
            IN  /\ Len(a) = Len(b)
                /\ Top(a) = N
                /\ \A j \in 1..(Len(b) - 1) : a[j] = b[j]
                /\ hist[i].calls = <<Ev("on_exit", Top(b)), Ev("on_enter", N)>>
                /\ ~(\E j \in DOMAIN a : a[j] = Top(b))

\* Replace applied to a stack of two scenes.
C4_Witness ==
    /\ hist # <<>>
    /\ hist[Len(hist)].switch.tag = "Replace"
    /\ Len(hist[Len(hist)].before) = 2
    /\ exitCnt[Top(hist[Len(hist)].before)] = 1

\* C5: Pop on a one-scene stack calls on_exit once, leaves the stack empty and
\* should_quit() true; Pop or Replace with no scene left calls no on_exit, and
\* Pop leaves the stack empty.
C5_PopToEmptyIsLegal ==
    \A i \in DOMAIN hist :
        LET h == hist[i]
        IN  /\ (h.switch.tag = "Pop" /\ Len(h.before) = 1) =>
                   /\ h.calls = <<Ev("on_exit", Top(h.before))>>
                   /\ h.after = <<>>
                   /\ i = Len(hist) => should_quit(Mgr)
            /\ (h.switch.tag = "Pop" /\ h.before = <<>>) =>
                   /\ h.calls = <<>>
                   /\ h.after = <<>>
                   /\ i = Len(hist) => should_quit(Mgr)
            /\ (h.switch.tag = "Replace" /\ h.before = <<>>) =>
                   /\ h.calls = <<Ev("on_enter", h.switch.scene)>>
                   /\ h.after = <<h.switch.scene>>

\* The last scene popped, then a further Pop on the empty stack.
C5_Witness ==
    /\ Len(hist) = 2
    /\ hist[1].switch.tag = "Pop" /\ Len(hist[1].before) = 1
    /\ hist[2].switch.tag = "Pop" /\ hist[2].before = <<>>
    /\ scenes = <<>>
    /\ ~quit

\* C6: Quit sets the quit flag, leaves the stack as it was and calls no
\* on_exit; the flag is never cleared, so should_quit() stays true whatever
\* signals follow.
C6_QuitIsTerminal ==
    /\ [](\A i \in DOMAIN hist :
            hist[i].switch.tag = "Quit" =>
                /\ hist[i].after = hist[i].before
                /\ hist[i].calls = <<>>
                /\ hist[i].quitAfter)
    /\ [](quit => should_quit(Mgr))
    /\ [][quit => quit']_vars

\* Quit applied to a non-empty stack, then a scene pushed: the flag is still set.
C6_Witness ==
    /\ Len(hist) = 2
    /\ hist[1].switch.tag = "Quit"
    /\ ~hist[1].quitBefore
    /\ hist[1].before # <<>>
    /\ hist[2].switch.tag = "Push"
    /\ quit
    /\ scenes # <<>>

\* -------------------------------------------------- claims on the maze scene
PlayerCell(m) == <<m.player_x, m.player_y>>

\* The validity rule as the specification words it: in bounds, tile id >= 0
\* and not a wall id (88..190).
Walkable(map, x, y) ==
    IF x < map.grid_w /\ y < map.grid_h
    THEN LET t == map.tiles[y + 1][x + 1] IN t >= 0 /\ ~(88 <= t /\ t <= 190)
    ELSE FALSE

GoalOn(m, cell) ==
    \E i \in DOMAIN m.map.entities :
        m.map.entities[i] = Entity("goal", cell[1], cell[2])

\* C7: when a tick fires with move (x, y) queued, the player cell becomes (x, y)
\* iff (x, y) is in bounds with a tile id >= 0 that is no wall id; otherwise the
\* player cell is unchanged; either way the queue is emptied, and a rejected
\* move surfaces no signal: update then returns what the goal check on the
\* unchanged cell returns.
C7_MoveAppliedIffValid ==
    [][(mlast'.op = "update" /\ mlast'.ticked /\ maze.queued_move # None) =>
        LET mv == Unwrap(maze.queued_move)
            ok == Walkable(maze.map, mv[1], mv[2])
        IN  /\ (PlayerCell(maze') = mv) <=> ok
            /\ ~ok => PlayerCell(maze') = PlayerCell(maze)
            /\ maze'.queued_move = None
            /\ ~ok => (mlast'.ret = "None" <=> ~GoalOn(maze, PlayerCell(maze)))
      ]_vars

\* A tick dropped a queued move that lies outside the grid.
C7_Witness ==
    /\ mlast.op = "update"
    /\ mlast.ticked
    /\ mlast.move = "rejected"
    /\ mlast.ret = "None"
    /\ maze.player_x >= maze.map.grid_w
    /\ maze.queued_move = None

\* C8: while a move is queued, handle_input with any input leaves the queued
\* move and the player cell unchanged; the queue holds at most one move, and
\* only a tick in update empties it.
C8_QueuedMoveIsKept ==
    /\ [](Len(maze.queued_move) <= 1)
    /\ [][maze.queued_move # None =>
            /\ mlast'.op = "handle_input" =>
                   /\ maze'.queued_move = maze.queued_move
                   /\ PlayerCell(maze') = PlayerCell(maze)
            /\ maze'.queued_move # maze.queued_move =>
                   /\ mlast'.op = "update"
                   /\ mlast'.ticked
                   /\ maze'.queued_move = None
         ]_vars

\* handle_input was called with a direction held while a move was queued.
C8_Witness ==
    /\ mlast.op = "handle_input"
    /\ mlast.move = "ignored"
    /\ maze.queued_move # None

\* C9: from a zero accumulator, update calls whose frame times sum to exactly
\* one tick period fire exactly one tick, on the last call, however the sum is
\* split.
C9_TickDeterminism ==
    win.ms = TickRateMs => (win.ticks = 1 /\ win.fired)

\* C10: on every update call, tick or no tick, if a goal entity is on the
\* player's cell after tick processing then points grows by exactly 1, the
\* completion timestamp is recorded and Replace(WinScene) is returned;
\* otherwise None is returned and points and the timestamp are unchanged.
C10_GoalScoresOnce ==
    [][mlast'.op = "update" =>
        IF GoalOn(maze', PlayerCell(maze'))
        THEN /\ data'.points = data.points + 1
             /\ data'.level_completion_time = Some(clock')
             /\ mlast'.ret = "Replace(WinScene)"
        ELSE /\ data'.points = data.points
             /\ data'.level_completion_time = data.level_completion_time
             /\ mlast'.ret = "None"
      ]_vars

\* An update call in which no tick fired scored on a goal.
C10_Witness ==
    /\ mlast.op = "update"
    /\ ~mlast.ticked
    /\ mlast.ret = "Replace(WinScene)"
    /\ data.points = 1
    /\ data.level_completion_time = Some(clock)
    /\ GoalOn(maze, PlayerCell(maze))

\* ---------------------------------------------------- claims on tile classes
\* C12: is_floor_tile(t) is true exactly for 4 <= t <= 81 and 191 <= t <= 218,
\* is_wall_tile(t) exactly for 88 <= t <= 190, and no id is both.
C12_TileClasses ==
    fcall.op = "classify" =>
        LET t == fcall.tile_id
        IN  /\ fcall.floor <=> (t \in 4 .. 81 \/ t \in 191 .. 218)
            /\ fcall.wall <=> t \in 88 .. 190
            /\ ~(fcall.floor /\ fcall.wall)

\* The first id of the second floor range has been classified as floor.
C12_Witness ==
    /\ fcall.op = "classify"
    /\ fcall.tile_id = 191
    /\ fcall.floor
    /\ ~fcall.wall

\* ------------------------------------------------ claims on the field of view
\* (x - px)^2 + (y - py)^2 <= r^2 over the integers
WithinRadius(x, y, px, py, r) ==
    /\ Abs(x - px) <= r
    /\ Abs(y - py) <= r
    /\ (x - px) * (x - px) + (y - py) * (y - py) <= r * r

InGrid(m, x, y) == x < m.map.grid_w /\ y < m.map.grid_h

\* C11: in_fov(x, y) returns, for a cell of the grid, whether its squared
\* distance from the player cell is at most fov_radius squared, and false for
\* a cell outside the grid; between two cells of the grid it is symmetric.
C11_FovIsDisc ==
    fcall.op = "in_fov" =>
        LET x == fcall.x
            y == fcall.y
            px == maze.player_x
            py == maze.player_y
            swapped == in_fov([maze EXCEPT !.player_x = x, !.player_y = y],
                              px, py, fcall.overflow_checks)
        IN  /\ ~fcall.out.panic
            /\ InGrid(maze, x, y) =>
                  (fcall.out.value <=> WithinRadius(x, y, px, py, maze.fov_radius))
            /\ ~InGrid(maze, x, y) => ~fcall.out.value
            /\ InGrid(maze, x, y) /\ InGrid(maze, px, py) =>
                  (fcall.out.value <=> swapped.value)

\* ------------------------------------------------ claims on the level timer
\* C13: get_elapsed_time returns a value only when both timestamps are set;
\* the value is the completion time minus the start time (as f32 seconds) and
\* is never negative; start_level_timer clears an earlier completion time.
C13_ElapsedTime ==
    /\ [](fcall.op = "get_elapsed_time" =>
            /\ fcall.out # None <=>
                  (data.level_start_time # None /\ data.level_completion_time # None)
            /\ fcall.out # None =>
                  LET start == Unwrap(data.level_start_time)
                      completion == Unwrap(data.level_completion_time)
                  IN  /\ start <= completion
                      /\ completion <= clock
                      /\ Unwrap(fcall.out) >= 0
                      /\ Unwrap(fcall.out) = F32OfMillis(completion - start))
    /\ [][fcall'.op = "start_level_timer" =>
            /\ data'.level_start_time = Some(clock')
            /\ data'.level_completion_time = None]_vars

\* A level restarted after a first completion and completed 150 ms later
\* reports 0.15f32.
C13_Witness ==
    /\ fcall.op = "get_elapsed_time"
    /\ data.level_start_time = Some(50)
    /\ data.level_completion_time = Some(200)
    /\ fcall.out = Some(F32OfMillis(TickRateMs))

\* C14: level_completion_time is set only if level_start_time is set, in
\* whatever order start_level_timer and complete_level are called.
C14_CompletionNeedsStart ==
    data.level_completion_time # None => data.level_start_time # None

\* --------------------------------------------------- claims on the tick timer
\* C19: an update call fires a tick iff the accumulator plus the frame time
\* reaches the tick period, and then resets the accumulator to exactly zero
\* and empties the move queue; it never fires more than one tick, whatever
\* the frame time; after every call the accumulator is below the period.
C19_OneTickPerUpdate ==
    [][mlast'.op = "update" =>
        LET t == f32_add(maze.tick_timer, F32OfMillis(mlast'.dt))
        IN  /\ mlast'.ticked <=> t >= maze.tick_rate
            /\ mlast'.ticked =>
                  /\ maze'.tick_timer = 0
                  /\ maze'.queued_move = None
                  /\ win'.ticks <= win.ticks + 1
            /\ ~mlast'.ticked =>
                  /\ maze'.tick_timer = t
                  /\ maze'.queued_move = maze.queued_move
                  /\ win'.ticks = win.ticks
            /\ 0 <= maze'.tick_timer
            /\ maze'.tick_timer < maze'.tick_rate]_vars

\* A frame of 400 ms, more than two periods, fired the first tick of the scene
\* and applied the queued move.
C19_Witness ==
    /\ mlast.op = "update"
    /\ mlast.dt = 400
    /\ mlast.ticked
    /\ mlast.move = "applied"
    /\ win.ticks = 1
    /\ maze.tick_timer = 0

\* ------------------------------------------------------ claims on the camera
\* The camera that looks at the center of the player's cell from the middle
\* of the screen.
CameraOnPlayer(m, d) ==
    /\ m.camera.target = <<m.player_x * m.tile_size + m.tile_size \div 2,
                           m.player_y * m.tile_size + m.tile_size \div 2>>
    /\ m.camera.offset = <<d.screen_width \div 2, d.screen_height \div 2>>

\* C20: after every update call the camera target is the pixel center of the
\* player's current cell and the offset is half the screen size, also when
\* the call fired a tick that moved the player.
C20_CameraFollowsPlayer ==
    mlast.op = "update" => CameraOnPlayer(maze, data)

\* ------------------------------------------------- claims on the two drivers
\* the on_enter and on_exit calls of a trace
Lifecycle(trace) ==
    SelectSeq(trace, LAMBDA e : e[1] \in {"on_enter", "on_exit"})

\* C18: a frame of main's loop leaves the stack, and makes the on_enter and
\* on_exit calls, that SceneManager::update gives for the same stack and the
\* same two signals.
C18_DriversAgree ==
    last.op = "main_loop" =>
        LET r == SceneManager_update(last.before, last.sw1, last.sw2)
        IN  /\ scenes = r.scenes
            /\ quit = r.quit
            /\ Lifecycle(last.trace) = Lifecycle(r.trace)

\* ------------------------------------------------------------ claims on draw
\* C16: draw of any scene leaves the scene's own state, the scene stack and
\* the GameData as they were.
C16_DrawChangesNothing ==
    [][last'.op = "draw" =>
        /\ scenes' = scenes
        /\ quit' = quit
        /\ maze' = maze
        /\ data' = data]_vars

\* A MazeScene was drawn in the frame whose tick moved the player off its
\* starting cell, with a wall and an entity in view.
C16_Witness ==
    /\ last.op = "draw"
    /\ last.trace = <<Ev("draw", MazeScene)>>
    /\ mlast.shown.walls # {}
    /\ mlast.shown.entities # {}
    /\ mlast.shown.camera.target # mlast.shown.player

\* ------------------------------------------------ claims on pause and win
\* C17: while MazeScene is on top, a press of the pause key makes its
\* handle_input return Push(PauseScene); reaching a goal makes its update
\* return Replace(WinScene).
C17_PauseAndWin ==
    (last.op = "update" /\ Top(last.before.scenes) = MazeScene) =>
        /\ mlast.p => last.sw1 = SceneSwitch("Push", PauseScene)
        /\ GoalAtPlayer(maze) => last.sw2 = SceneSwitch("Replace", WinScene)

\* ------------------------------------------------- claims on suspended scenes
TopOf(stack) == IF stack = <<>> THEN {} ELSE {Top(stack)}

Beneath(stack) ==
    IF stack = <<>> THEN {} ELSE {stack[i] : i \in 1 .. Len(stack) - 1}

\* C15: SceneManager calls handle_input, update and draw only on the scene on
\* top at the moment of the call; a scene that stays beneath the top receives
\* no call at all, so nothing can change its local state.
C15_OnlyTopIsCalled ==
    [][last'.op \in {"update", "draw", "apply_switch"} =>
        LET mid == IF last'.op = "update" THEN StackAfter(scenes, last'.sw1)
                   ELSE scenes
            trace == last'.trace
        IN  /\ \A k \in DOMAIN trace :
                  /\ trace[k][1] = "handle_input" => trace[k][2] \in TopOf(scenes)
                  /\ trace[k][1] = "update" => trace[k][2] \in TopOf(mid)
                  /\ trace[k][1] = "draw" => trace[k][2] \in TopOf(scenes')
            /\ \A i \in Beneath(scenes) \cap Beneath(mid) \cap Beneath(scenes') :
                  /\ enterCnt'[i] = enterCnt[i]
                  /\ exitCnt'[i] = exitCnt[i]
                  /\ \A k \in DOMAIN trace : trace[k][2] # i]_vars

\* Scene 2 took both calls of a frame on top of scene 1, which was entered
\* once and has not been left.
C15_Witness ==
    /\ last.op = "update"
    /\ last.before.scenes = <<1, 2>>
    /\ scenes = <<1, 2>>
    /\ last.trace = <<Ev("handle_input", 2), Ev("update", 2)>>
    /\ enterCnt[1] = 1
    /\ exitCnt[1] = 0

\* ------------------------------------- one MazeScene, each call with its input
\* fcall keeps, for the last trait call, the input read (none when the queue
\* was occupied), the queue and the player's cell before the call, and for
\* on_enter the entities loaded.
MoveDtMs == {75, 150}

NoInput == WithPad(NoKeys, FALSE, 0, 0)

MoveEnter(adv) ==
    LET r == MazeScene_on_enter(maze, data, clock + adv)
    IN  /\ ~entered
        /\ clock + adv <= MaxClock
        /\ maze' = r.scene
        /\ data' = r.data
        /\ clock' = clock + adv
        /\ entered' = TRUE
        /\ fcall' = [op |-> "on_enter", inp |-> NoInput, was |-> maze.queued_move,
                     from |-> <<maze.player_x, maze.player_y>>,
                     entities |-> maze.map.entities]
        /\ UNCHANGED <<mlast, win, mgrVars>>

MoveInput(inp) ==
    /\ maze' = MazeScene_handle_input(maze, inp)
    /\ fcall' = [op |-> "handle_input",
                 inp |-> IF maze.queued_move = None THEN inp ELSE NoInput,
                 was |-> maze.queued_move,
                 from |-> <<maze.player_x, maze.player_y>>,
                 entities |-> <<>>]
    /\ UNCHANGED <<data, clock, entered, mlast, win, mgrVars>>

MoveUpdate(ms) ==
    LET r == MazeScene_update(maze, data, F32OfMillis(ms), clock)
    IN  /\ r.data.points <= MaxPoints
        /\ maze' = r.scene
        /\ data' = r.data
        /\ fcall' = [op |-> "update", inp |-> NoInput, was |-> maze.queued_move,
                     from |-> <<maze.player_x, maze.player_y>>,
                     entities |-> <<>>]
        /\ UNCHANGED <<clock, entered, mlast, win, mgrVars>>

NextMove ==
    \/ \E adv \in {0, 1} : MoveEnter(adv)
    \/ \E inp \in Inputs : MoveInput(inp)
    \/ \E ms \in MoveDtMs : MoveUpdate(ms)

SpecMove == MazeInit /\ [][NextMove]_vars

\* ------------------------------------------------------------ C21 .. C29
\* some direction key is held, or the stick of an available gamepad is pushed
\* past the deadzone
Directional(inp) ==
    \/ inp.right \/ inp.left \/ inp.down \/ inp.up
    \/ inp.gamepad /\ (Abs(inp.x_axis) > Deadzone \/ Abs(inp.y_axis) > Deadzone)

\* the last call was handle_input with an empty queue, the player inside a
\* grid of at least one cell
ReadFromGrid ==
    /\ fcall.op = "handle_input"
    /\ fcall.was = None
    /\ maze.map.grid_w >= 1 /\ maze.map.grid_h >= 1
    /\ InGrid(maze, fcall.from[1], fcall.from[2])

\* C21: a move that handle_input stores, with the player inside a grid of at
\* least one cell, is a cell inside the grid (clamped at the edges) other than
\* the player's cell; with no directional input nothing is stored.
C21_QueuedCellInGrid ==
    ReadFromGrid =>
        /\ maze.queued_move # None =>
              /\ InGrid(maze, Unwrap(maze.queued_move)[1], Unwrap(maze.queued_move)[2])
              /\ Unwrap(maze.queued_move) # fcall.from
              /\ Directional(fcall.inp)
        /\ ~Directional(fcall.inp) => maze.queued_move = None

\* the right key and the stick pushed right, one cell from the right edge: the
\* second step is clamped at the edge
C21_Witness ==
    /\ ReadFromGrid
    /\ fcall.inp.right /\ fcall.inp.gamepad
    /\ fcall.inp.x_axis > Deadzone /\ fcall.inp.y_axis = 0
    /\ fcall.from[1] + 1 = maze.map.grid_w - 1
    /\ maze.queued_move = Some(<<maze.map.grid_w - 1, fcall.from[2]>>)

\* after on_enter, the last call was an update whose tick applied the queued
\* move, the player having been inside the grid
MoveApplied ==
    /\ entered
    /\ fcall.op = "update"
    /\ fcall.was # None
    /\ PlayerCell(maze) = Unwrap(fcall.was)
    /\ InGrid(maze, fcall.from[1], fcall.from[2])

\* C26: a move that was queued and then applied displaces the player by at
\* most one cell on each axis, whatever keys and stick handle_input read.
C26_OneCellPerMove ==
    MoveApplied =>
        /\ Abs(maze.player_x - fcall.from[1]) <= 1
        /\ Abs(maze.player_y - fcall.from[2]) <= 1

\* the indices of the "player" entities of a list
PlayerEntities(es) == {i \in DOMAIN es : es[i].kind = "player"}

\* cell a comes before cell b in row-major order (y outer, x inner)
RowMajorBefore(a, b) == a[2] < b[2] \/ (a[2] = b[2] /\ a[1] < b[1])

GridCells(map) == (0 .. map.grid_w - 1) \X (0 .. map.grid_h - 1)

\* C23: after on_enter the player is on the cell of the first "player" entity
\* of the loaded map if there is one, otherwise on the first cell in row-major
\* order that passes the validity rule; no "player" entity remains, the level
\* timer is started at the current reading of the clock and the completion
\* time is cleared.
C23_OnEnterPlacesPlayer ==
    fcall.op = "on_enter" =>
        /\ \A i \in PlayerEntities(fcall.entities) :
              (\A j \in PlayerEntities(fcall.entities) : i <= j)
                 => PlayerCell(maze) = <<fcall.entities[i].x, fcall.entities[i].y>>
        /\ (PlayerEntities(fcall.entities) = {}
              /\ \E c \in GridCells(maze.map) : Walkable(maze.map, c[1], c[2]))
             => /\ PlayerCell(maze) \in GridCells(maze.map)
                /\ Walkable(maze.map, maze.player_x, maze.player_y)
                /\ \A c \in GridCells(maze.map) :
                      RowMajorBefore(c, PlayerCell(maze))
                         => ~Walkable(maze.map, c[1], c[2])
        /\ PlayerEntities(maze.map.entities) = {}
        /\ Len(maze.map.entities) + Cardinality(PlayerEntities(fcall.entities))
              = Len(fcall.entities)
        /\ data.level_start_time = Some(clock)
        /\ data.level_completion_time = None

\* on_enter on a map without a "player" entity whose first cell is not valid
C23_Witness ==
    /\ fcall.op = "on_enter"
    /\ PlayerEntities(fcall.entities) = {}
    /\ PlayerCell(maze) # <<0, 0>>
    /\ ~Walkable(maze.map, 0, 0)
    /\ clock > 0

\* tiles has grid_h rows of grid_w ids
TilesShaped(map) ==
    /\ Len(map.tiles) = map.grid_h
    /\ \A y \in 1 .. map.grid_h : Len(map.tiles[y]) = map.grid_w

\* every entity of the map lies inside the grid
EntitiesInGrid(map) ==
    \A i \in DOMAIN map.entities :
        map.entities[i].x < map.grid_w /\ map.entities[i].y < map.grid_h

\* C27: on a well-formed map, once on_enter has left the player on a cell that
\* passes the validity rule (inside the grid, tile id >= 0, not a wall id), no
\* handle_input or update call takes the player off such a cell.
C27_PlayerStaysOnValid ==
    [][(/\ entered
        /\ TilesShaped(maze.map) /\ EntitiesInGrid(maze.map)
        /\ Walkable(maze.map, maze.player_x, maze.player_y))
          => /\ InGrid(maze', maze'.player_x, maze'.player_y)
             /\ Walkable(maze'.map, maze'.player_x, maze'.player_y)]_vars

\* a tick has rejected a queued move onto a cell that fails the validity rule
C27_Witness ==
    /\ entered
    /\ TilesShaped(maze.map) /\ EntitiesInGrid(maze.map)
    /\ fcall.op = "update"
    /\ fcall.was # None
    /\ ~Walkable(maze.map, Unwrap(fcall.was)[1], Unwrap(fcall.was)[2])
    /\ maze.queued_move = None
    /\ PlayerCell(maze) = fcall.from
    /\ Walkable(maze.map, maze.player_x, maze.player_y)

\* the cell lies in the rectangle of get_visible_bounds (max exclusive)
InVisibleBounds(m, x, y) ==
    LET b == get_visible_bounds(m)
    IN  b.min_x <= x /\ x < b.max_x /\ b.min_y <= y /\ y < b.max_y

\* C22: with the player inside the grid, the cells draw treats as visible
\* (inside get_visible_bounds and passing in_fov) are exactly the cells of the
\* grid that pass in_fov: no cell of the grid that passes in_fov lies outside
\* the rectangle, and the rectangle ends inside the grid.
C22_BoundsCoverFov ==
    (fcall.op = "in_fov" /\ InGrid(maze, maze.player_x, maze.player_y)) =>
        /\ (InGrid(maze, fcall.x, fcall.y) /\ ~fcall.out.panic /\ fcall.out.value)
              => InVisibleBounds(maze, fcall.x, fcall.y)
        /\ get_visible_bounds(maze).max_x <= maze.map.grid_w
        /\ get_visible_bounds(maze).max_y <= maze.map.grid_h

OnStack(i) == \E k \in DOMAIN scenes : scenes[k] = i

\* the calls of a trace that go to scene object i, in order
CallsTo(trace, i) == SelectSeq(trace, LAMBDA e : e[2] = i)

\* C24: under SceneManager every scene object on the stack has received
\* on_enter exactly once and on_exit never; every scene object that was
\* removed has received on_exit exactly once, after its on_enter; and no call
\* of any kind reaches a scene object after its on_exit.
C24_LifecycleCounts ==
    /\ [](\A i \in SceneIds :
            /\ OnStack(i) => enterCnt[i] = 1 /\ exitCnt[i] = 0
            /\ (i < nextId /\ ~OnStack(i)) => enterCnt[i] = 1 /\ exitCnt[i] = 1
            /\ i >= nextId => enterCnt[i] = 0 /\ exitCnt[i] = 0)
    /\ [][last' # last =>
            \A i \in SceneIds :
               LET to == CallsTo(last'.trace, i)
               IN  /\ exitCnt[i] = 1 => to = <<>>
                   /\ \A k \in DOMAIN to :
                         /\ to[k][1] = "on_exit" => k = Len(to)
                         /\ to[k][1] = "on_enter" => k = 1
                   /\ (enterCnt[i] = 0 /\ to # <<>>) => to[1][1] = "on_enter"]_vars

\* a scene object pushed by handle_input and removed by its own update in the
\* same frame, while an older scene object stays on the stack
C24_Witness ==
    /\ last.op = "update"
    /\ \E i \in SceneIds :
          /\ CountEv(last.trace, "on_enter", i) = 1
          /\ CountEv(last.trace, "on_exit", i) = 1
          /\ ~OnStack(i)
          /\ enterCnt[i] = 1 /\ exitCnt[i] = 1
    /\ scenes # <<>>
    /\ \E j \in SceneIds : ~OnStack(j) /\ j < nextId /\ CountEv(last.trace, "on_exit", j) = 0

HasScene(stack, scene) == \E k \in DOMAIN stack : stack[k] = scene

\* C25: under SceneManager one MazeScene object raises points by at most 1:
\* a step that changes points adds exactly 1, is a frame that called update on
\* the MazeScene, and ends with that MazeScene replaced by the WinScene (so
\* its update cannot run again).
C25_OneScorePerMaze ==
    [][data'.points # data.points =>
          /\ data'.points = data.points + 1
          /\ CallsMaze(last'.trace, "update")
          /\ CallsMaze(last'.trace, "on_exit")
          /\ ~HasScene(scenes', MazeScene)
          /\ Top(scenes') = WinScene]_vars

\* a second MazeScene object has scored its one point
C25_Witness ==
    /\ data.points = 2
    /\ Top(scenes) = WinScene
    /\ CallsMaze(last.trace, "update")
    /\ CallsMaze(last.trace, "on_exit")

LiveDts == {F32OfMillis(75), F32OfMillis(150), 1}

\* A MazeScene after from_map and on_enter, as SceneManager hands it to the
\* loop. mlast.frame is the parity of the number of update calls, so that an
\* update that leaves the scene as it was is still a step of the run.
LiveInit ==
    /\ MgrStart
    /\ fcall = NoCall
    /\ \E map \in {MapA, MapB} :
          LET r == MazeScene_on_enter(from_map(map), GameData_new(640, 480), 0)
          IN  /\ maze = r.scene
              /\ data = r.data
    /\ clock = 0
    /\ entered = TRUE
    /\ mlast = [op |-> "on_enter", ret |-> "None", ticked |-> FALSE, move |-> "none",
                dt |-> 0, frame |-> 0]
    /\ win = [ms |-> 0, ticks |-> 0, fired |-> FALSE]

\* handle_input while the MazeScene is the active scene
LiveInput(inp) ==
    /\ mlast.ret = "None"
    /\ maze' = MazeScene_handle_input(maze, inp)
    /\ mlast' = [mlast EXCEPT !.op = "handle_input", !.ticked = FALSE, !.dt = 0]
    /\ UNCHANGED <<data, clock, entered, win, mgrVars, fcall>>

\* update(dt) while the MazeScene is the active scene; a return of
\* Replace(WinScene) ends that. The short frame time is explored once the
\* accumulator holds a long one (the sums of short ones alone run through
\* millions of accumulator values).
LiveUpdate(dt) ==
    LET r == MazeScene_update(maze, data, dt, clock)
    IN  /\ mlast.ret = "None"
        /\ dt >= F32OfMillis(75) \/ maze.tick_timer >= F32OfMillis(75)
        /\ maze' = r.scene
        /\ data' = r.data
        /\ mlast' = [op |-> "update", ret |-> r.ret, ticked |-> r.ticked,
                     move |-> "none", dt |-> dt, frame |-> 1 - mlast.frame]
        /\ UNCHANGED <<clock, entered, win, mgrVars, fcall>>

NextLive ==
    \/ \E inp \in Inputs : LiveInput(inp)
    \/ \E dt \in LiveDts : LiveUpdate(dt)

\* update keeps being called for as long as the MazeScene is active
SpecLive ==
    LiveInit /\ [][NextLive]_vars /\ WF_vars(\E dt \in LiveDts : LiveUpdate(dt))

\* C28: while the MazeScene stays active and update keeps being called with
\* positive delta_seconds, a queued move is eventually consumed by a tick: the
\* queue does not stay occupied forever.
C28_QueueIsConsumed ==
    (maze.queued_move # None) ~> (maze.queued_move = None)

====
